---------------------------- MODULE Spec2Model ----------------------------
(***************************************************************************)
(* State-machine model of the crop recommendation form (task7.py).         *)
(*                                                                         *)
(* Text typed into a widget is a sequence of one-character strings, so     *)
(* that float(), str.capitalize() and str.strip() are modelled by what     *)
(* they do to the characters.  A float is kept exactly as mant / 10^exp.   *)
(* Non-ASCII characters of the source's literals (dashes, emoji) are       *)
(* written in ASCII here.                                                  *)
(***************************************************************************)
EXTENDS Integers, Sequences, FiniteSets, TLC

VARIABLES
    entries,       \* self.entries: field key -> text of its ttk.Entry
    search_var,    \* self.search_var: text of the search box
    result_label,  \* self.result_label's text
    info_text,     \* content of self.info_text
    chart,         \* children of self.chart_frame (the drawn probabilities)
    dialogs,       \* messagebox.showerror calls made by the last click
    steps,         \* the statements the last click executed, in order
    model,         \* the fitted RandomForestClassifier
    le,            \* the fitted LabelEncoder (its classes_)
    BASE_INFO,     \* the knowledge table
    EXTRA_TIPS     \* the tips list

vars == <<entries, search_var, result_label, info_text, chart, dialogs,
          steps, model, le, BASE_INFO, EXTRA_TIPS>>

-----------------------------------------------------------------------------
(* Bounds of the model.                                                    *)

\* How many steps of 0.1 outside a range the test values go.
MaxDelta == 1

\* How many spaces are put before and after a search query.
MaxPad == 1

\* How many different fitted forests the model may be (the fit is opaque).
NumForests == 2

-----------------------------------------------------------------------------
(* Characters and Python string methods.                                   *)

Lowers == <<"a","b","c","d","e","f","g","h","i","j","k","l","m",
            "n","o","p","q","r","s","t","u","v","w","x","y","z">>

Uppers == <<"A","B","C","D","E","F","G","H","I","J","K","L","M",
            "N","O","P","Q","R","S","T","U","V","W","X","Y","Z">>

Digits == <<"0","1","2","3","4","5","6","7","8","9">>

Whitespace == {" "}

ToUpper(c) ==
    IF \E i \in 1..Len(Lowers) : Lowers[i] = c
    THEN Uppers[CHOOSE i \in 1..Len(Lowers) : Lowers[i] = c]
    ELSE c

ToLower(c) ==
    IF \E i \in 1..Len(Uppers) : Uppers[i] = c
    THEN Lowers[CHOOSE i \in 1..Len(Uppers) : Uppers[i] = c]
    ELSE c

\* str.upper and str.lower
StrUpper(s) == [i \in 1..Len(s) |-> ToUpper(s[i])]

StrLower(s) == [i \in 1..Len(s) |-> ToLower(s[i])]

\* str.capitalize: first character upper-cased, the rest lower-cased
Capitalize(s) ==
    [i \in 1..Len(s) |-> IF i = 1 THEN ToUpper(s[i]) ELSE ToLower(s[i])]

RECURSIVE LStrip(_)
LStrip(s) ==
    IF s = <<>> THEN s
    ELSE IF Head(s) \in Whitespace THEN LStrip(Tail(s)) ELSE s

RECURSIVE RStrip(_)
RStrip(s) ==
    IF s = <<>> THEN s
    ELSE IF s[Len(s)] \in Whitespace THEN RStrip(SubSeq(s, 1, Len(s) - 1))
    ELSE s

\* str.strip: leading and trailing whitespace removed
Strip(s) == RStrip(LStrip(s))

-----------------------------------------------------------------------------
(* float(text).                                                            *)

RECURSIVE Pow10(_)
Pow10(n) == IF n = 0 THEN 1 ELSE 10 * Pow10(n - 1)

IsDigits(s) == \A i \in 1..Len(s) : \E d \in 1..Len(Digits) : Digits[d] = s[i]

DigitVal(c) == (CHOOSE d \in 1..Len(Digits) : Digits[d] = c) - 1

RECURSIVE ToNat(_)
ToNat(s) ==
    IF s = <<>> THEN 0
    ELSE 10 * ToNat(SubSeq(s, 1, Len(s) - 1)) + DigitVal(s[Len(s)])

\* mant / 10^exp without trailing zeros of the fraction: 4.0 and 4 are
\* the same float
RECURSIVE Canon(_, _)
Canon(mant, exp) ==
    IF exp > 0 /\ mant % 10 = 0 THEN Canon(mant \div 10, exp - 1)
    ELSE [kind |-> "num", mant |-> mant, exp |-> exp]

ValueError == [kind |-> "ValueError", mant |-> 0, exp |-> 0]

NaN == [kind |-> "nan", mant |-> 0, exp |-> 0]

\* float() of a string over digits, sign, point, space and lower-case
\* letters other than e, i, f: surrounding whitespace is ignored, then an
\* optional sign and either "nan" or digits with at most one point and at
\* least one digit; anything else raises ValueError
Float(text) ==
    LET s      == Strip(text)
        signed == s # <<>> /\ s[1] \in {"+", "-"}
        body   == IF signed THEN Tail(s) ELSE s
        sign   == IF signed /\ s[1] = "-" THEN -1 ELSE 1
        dots   == {i \in 1..Len(body) : body[i] = "."}
    IN  IF body = <<"n", "a", "n">> THEN NaN
        ELSE IF dots = {} THEN
            IF body # <<>> /\ IsDigits(body)
            THEN Canon(sign * ToNat(body), 0)
            ELSE ValueError
        ELSE IF Cardinality(dots) = 1 THEN
            LET d  == CHOOSE i \in dots : TRUE
                ip == SubSeq(body, 1, d - 1)
                fp == SubSeq(body, d + 1, Len(body))
            IN  IF IsDigits(ip) /\ IsDigits(fp) /\ (ip # <<>> \/ fp # <<>>)
                THEN Canon(sign * ToNat(ip \o fp), Len(fp))
                ELSE ValueError
        ELSE ValueError

\* Faulty variant of Between: the bounds themselves are refused
BetweenStrict(low, v, high) ==
    /\ v.kind = "num"
    /\ low * Pow10(v.exp) < v.mant
    /\ v.mant < high * Pow10(v.exp)

\* low <= v <= high for a float v and integers low, high; every comparison
\* with nan is false
Between(low, v, high) ==
    /\ v.kind = "num"
    /\ low * Pow10(v.exp) <= v.mant
    /\ v.mant <= high * Pow10(v.exp)

-----------------------------------------------------------------------------
(* The knowledge table and the tips (module level, built at import).        *)

Rice == <<"R","i","c","e">>

Wheat == <<"W","h","e","a","t">>

Maize == <<"M","a","i","z","e">>

Cotton == <<"C","o","t","t","o","n">>

Sugarcane == <<"S","u","g","a","r","c","a","n","e">>

Barley == <<"B","a","r","l","e","y">>

Pulses == <<"P","u","l","s","e","s">>

Coffee == <<"C","o","f","f","e","e">>

\* BASE_INFO: crop -> its headings and texts, in the dict's insertion order
BaseInfoTable ==
    (Rice :> <<
        <<"Cultivation", "Paddy fields; transplant 20-30 day seedlings; maintain levees.">>,
        <<"Water", "High - standing water required for much of the season.">>,
        <<"Pests", "Stem borer, leaf folder; watch seedling & tillering stages.">>,
        <<"Harvest", "When grains are golden and moisture ~20%.">>,
        <<"Fertilizer", "Split N application; use urea and basal P/K.">>,
        <<"Soil", "Clayey loam or alluvial soils (good water retention).">>,
        <<"Climate", "Warm, humid climate; heavy rainfall preferred.">>>>)
    @@ (Wheat :> <<
        <<"Cultivation", "Sow in well-drained loamy soil; use certified seeds; maintain row spacing.">>,
        <<"Water", "Moderate - critical during tillering & grain filling.">>,
        <<"Pests", "Rusts, aphids; monitor during cool, humid weather.">>,
        <<"Harvest", "Harvest when straw turns yellow and grains hard.">>,
        <<"Fertilizer", "Basal N and top-dress at tillering; balanced NPK.">>,
        <<"Soil", "Loamy soils with good drainage.">>,
        <<"Climate", "Cool to moderate temperatures; less humid than rice.">>>>)
    @@ (Maize :> <<
        <<"Cultivation", "Sow 3-5 cm deep; ensure fertile soil; plant in rows for mechanized weeding.">>,
        <<"Water", "Higher need at flowering & grain filling stages.">>,
        <<"Pests", "Stem borers, cutworms; use crop rotation.">>,
        <<"Harvest", "Harvest when cobs dry and kernels hard.">>,
        <<"Fertilizer", "Apply N heavily early; add P & K as needed.">>,
        <<"Soil", "Well-drained loam with organic matter.">>,
        <<"Climate", "Warm climate; frost-free period needed.">>>>)
    @@ (Cotton :> <<
        <<"Cultivation", "Plant stem cuttings; prefer sunny, well-drained fields.">>,
        <<"Water", "Moderate - avoid waterlogging; water more during boll formation.">>,
        <<"Pests", "Bollworm, jassids; use integrated pest management.">>,
        <<"Harvest", "Harvest when bolls open and lint is fluffy.">>,
        <<"Fertilizer", "Balanced NPK; potassium important for lint quality.">>,
        <<"Soil", "Black cotton soil or deep loamy soils.">>,
        <<"Climate", "Warm climate; long growing season.">>>>)
    @@ (Sugarcane :> <<
        <<"Cultivation", "Plant setts in rows; incorporate green manure.">>,
        <<"Water", "High - regular irrigation required.">>,
        <<"Pests", "Borers, aphids; maintain field sanitation.">>,
        <<"Harvest", "10-18 months depending on variety; harvest when cane is mature.">>,
        <<"Fertilizer", "High N and K requirements; split applications.">>,
        <<"Soil", "Sandy loam to clay loam with organic matter.">>,
        <<"Climate", "Tropical to subtropical climates best.">>>>)
    @@ (Barley :> <<
        <<"Cultivation", "Sow in cooler season; good seedbed preparation.">>,
        <<"Water", "Moderate - avoid waterlogging.">>,
        <<"Pests", "Rusts; keep disease-resistant varieties when available.">>,
        <<"Harvest", "When spikes yellow and grains firm.">>,
        <<"Fertilizer", "Balanced NPK; lower N than wheat.">>,
        <<"Soil", "Sandy loam to loam.">>,
        <<"Climate", "Cool to moderate; tolerant to poorer soils.">>>>)
    @@ (Pulses :> <<
        <<"Cultivation", "Sow after rains; seeds often inoculated with Rhizobium.">>,
        <<"Water", "Low to moderate - many pulses are drought tolerant.">>,
        <<"Pests", "Pod borer and aphids; timely monitoring helps.">>,
        <<"Harvest", "Harvest before pods shatter; dry properly.">>,
        <<"Fertilizer", "Low N (fix nitrogen), apply P & K as needed.">>,
        <<"Soil", "Light to medium soils; good drainage.">>,
        <<"Climate", "Often tolerant to semi-arid conditions.">>>>)
    @@ (Coffee :> <<
        <<"Cultivation", "Shade-grown in rich, well-drained soils; careful pruning.">>,
        <<"Water", "Regular moisture but good drainage required.">>,
        <<"Pests", "Berry borer, leaf rust; pruning and sanitation important.">>,
        <<"Harvest", "Pick ripe red cherries by hand.">>,
        <<"Fertilizer", "Apply compost and balanced NPK; micronutrients helpful.">>,
        <<"Soil", "Rich, slightly acidic soils (pH ~6-6.5).">>,
        <<"Climate", "Tropical highlands; cooler nights and shade preferred.">>>>)

\* EXTRA_TIPS
ExtraTipsList == <<
    "Rotate crops to keep soil healthy.",
    "Use mulching to retain soil moisture and suppress weeds.",
    "Prefer certified seeds for better germination and yields.",
    "Maintain good drainage to avoid root diseases.",
    "Use organic manure to improve soil structure.">>


-----------------------------------------------------------------------------
(* The form fields and the validation ranges.                              *)

\* fields of __init__, in form order: the key of the entry and the hint
\* shown next to it, "(low-high)"
fields == <<
    [label |-> "Nitrogen (N)",     key |-> "Nitrogen",    note |-> <<0, 150>>],
    [label |-> "Phosphorus (P)",   key |-> "Phosphorus",  note |-> <<0, 150>>],
    [label |-> "Potassium (K)",    key |-> "Potassium",   note |-> <<0, 150>>],
    [label |-> "Temperature (C)",  key |-> "Temperature", note |-> <<10, 40>>],
    [label |-> "Humidity (%)",     key |-> "Humidity",    note |-> <<20, 90>>],
    [label |-> "Soil pH",          key |-> "pH",          note |-> <<4, 9>>],
    [label |-> "Rainfall (mm)",    key |-> "Rainfall",    note |-> <<50, 300>>] >>

\* the keys of self.entries, in insertion order
EntryKeys == [i \in 1..Len(fields) |-> fields[i].key]

\* Faulty variant of ranges: the loop runs over the keys in sorted order
rangesSorted == <<
    [key |-> "Humidity",    low |-> 20, high |-> 90],
    [key |-> "Nitrogen",    low |-> 0,  high |-> 150],
    [key |-> "Phosphorus",  low |-> 0,  high |-> 150],
    [key |-> "Potassium",   low |-> 0,  high |-> 150],
    [key |-> "Rainfall",    low |-> 50, high |-> 300],
    [key |-> "Temperature", low |-> 10, high |-> 40],
    [key |-> "pH",          low |-> 4,  high |-> 9] >>

\* ranges of predict_crop, in the dict's insertion order
ranges == <<
    [key |-> "Nitrogen",    low |-> 0,  high |-> 150],
    [key |-> "Phosphorus",  low |-> 0,  high |-> 150],
    [key |-> "Potassium",   low |-> 0,  high |-> 150],
    [key |-> "Temperature", low |-> 10, high |-> 40],
    [key |-> "Humidity",    low |-> 20, high |-> 90],
    [key |-> "pH",          low |-> 4,  high |-> 9],
    [key |-> "Rainfall",    low |-> 50, high |-> 300] >>

-----------------------------------------------------------------------------
(* The label encoder and the classifier.                                   *)

\* the crop names the training labels are drawn from
CropChoices == <<Rice, Wheat, Maize, Cotton, Sugarcane, Barley, Pulses, Coffee>>

\* the code point order of the letters: upper case before lower case
Ord(c) ==
    IF \E i \in 1..Len(Uppers) : Uppers[i] = c
    THEN CHOOSE i \in 1..Len(Uppers) : Uppers[i] = c
    ELSE Len(Uppers) + (CHOOSE i \in 1..Len(Lowers) : Lowers[i] = c)

\* s < t for two strings of letters
RECURSIVE StrLess(_, _)
StrLess(s, t) ==
    IF t = <<>> THEN FALSE
    ELSE IF s = <<>> THEN TRUE
    ELSE IF Head(s) = Head(t) THEN StrLess(Tail(s), Tail(t))
    ELSE Ord(Head(s)) < Ord(Head(t))

\* the elements of S in increasing order
RECURSIVE Sorted(_)
Sorted(S) ==
    IF S = {} THEN <<>>
    ELSE LET m == CHOOSE x \in S : \A y \in S \ {x} : StrLess(x, y)
         IN  <<m>> \o Sorted(S \ {m})

\* le.fit_transform(df["Crop"]): classes_ are the distinct labels, sorted
\* (every one of the eight names occurs among the 300 samples)
LabelEncoderFit == Sorted({CropChoices[i] : i \in 1..Len(CropChoices)})

\* le.inverse_transform([label])[0], labels counted from 1
InverseTransform(enc, label) == enc[label]

n_estimators == 100

\* model.fit: what the fit produces is not modelled; a fitted forest is
\* identified by f and votes over the encoded labels
Fit(f) == [forest |-> f, n_classes |-> Len(LabelEncoderFit)]

\* a number the trees' votes are derived from
RECURSIVE Digest(_, _)
Digest(arr, i) ==
    IF i > Len(arr) THEN 0
    ELSE i * (arr[i].mant + arr[i].exp) + Digest(arr, i + 1)

\* model.predict_proba(arr)[0] in hundredths: each of the n_estimators
\* fully grown trees votes for one class, so the probabilities are votes
\* out of 100.  Which classes the votes go to stands for the fitted trees:
\* a fixed function of the forest and of the seven floats.
PredictProba(m, arr) ==
    LET d      == Digest(arr, 1)
        h      == (IF d < 0 THEN -d ELSE d) \div Len(arr)
        top    == ((h + m.forest) % m.n_classes) + 1
        second == ((h \div m.n_classes + 3 * m.forest) % m.n_classes) + 1
    IN  [i \in 1..m.n_classes |->
            (n_estimators \div 10)
            + (IF i = top THEN 12 ELSE 0)
            + (IF i = second THEN 8 ELSE 0)]

\* np.argmax: the first index of the largest value
ArgMax(p) ==
    CHOOSE i \in DOMAIN p :
        /\ \A j \in DOMAIN p : p[j] <= p[i]
        /\ \A j \in DOMAIN p : j < i => p[j] < p[i]

\* np.max
Max(p) == p[ArgMax(p)]

\* model.predict(arr)[0]: the class with the largest mean probability
Predict(m, arr) == ArgMax(PredictProba(m, arr))

-----------------------------------------------------------------------------
(* The widgets' contents and the dialogs.                                  *)

\* result_label.config(text=...) of predict_crop; the confidence is
\* np.max(probs) * 100, printed with two decimals (here always .00)
RecommendedLabel(pred_crop, confidence) ==
    [kind |-> "Recommended Crop", crop |-> pred_crop, confidence |-> confidence]

\* result_label.config(text=...) of search_crop
InformationLabel(crop) ==
    [kind |-> "Information for", crop |-> crop, confidence |-> 0]

\* text="" of the label's construction
EmptyLabel == [kind |-> "", crop |-> <<>>, confidence |-> 0]

\* the Text widget before anything is inserted
EmptyText == [shown |-> FALSE, crop |-> <<>>, body |-> <<>>, tips |-> <<>>]

\* showerror of the ValueError handler
NumericDialog ==
    [title    |-> "Invalid Input",
     template |-> "Please enter numeric values for all fields.",
     args     |-> <<>>]

\* showerror of the range loop
RangeDialog(k, low, high) ==
    [title    |-> "Invalid Input",
     template |-> "{k} must be between {low} and {high}.",
     args     |-> <<k, low, high>>]

\* showerror of search_crop
NotFoundDialog(crop) ==
    [title    |-> "Not Found",
     template |-> "Crop '{crop}' not found.",
     args     |-> <<crop>>]

Step(op, arg) == [op |-> op, arg |-> arg]

-----------------------------------------------------------------------------
(* predict_crop.                                                           *)

Least(S) == CHOOSE i \in S : \A j \in S : i <= j

\* Faulty variant of FirstValueError: an empty entry is let through
FirstValueErrorSkipEmpty ==
    LET bad == {i \in 1..Len(EntryKeys) :
                    /\ entries[EntryKeys[i]] # <<>>
                    /\ Float(entries[EntryKeys[i]]) = ValueError}
    IN  IF bad = {} THEN 0 ELSE Least(bad)

\* the dict comprehension {k: float(v.get()) ...}: the position of the first
\* entry, in insertion order, whose text float() rejects; 0 when none
FirstValueError ==
    LET bad == {i \in 1..Len(EntryKeys) :
                    Float(entries[EntryKeys[i]]) = ValueError}
    IN  IF bad = {} THEN 0 ELSE Least(bad)

\* the range loop: the position in ranges of the first value outside its
\* range; 0 when none
FirstOutOfRange(inputs) ==
    LET bad == {i \in 1..Len(ranges) :
                    ~Between(ranges[i].low, inputs[ranges[i].key], ranges[i].high)}
    IN  IF bad = {} THEN 0 ELSE Least(bad)

\* random.sample(EXTRA_TIPS, k=2): two different positions, in either order
SamplePicks == {t \in (1..Len(EXTRA_TIPS)) \X (1..Len(EXTRA_TIPS)) : t[1] # t[2]}

\* Faulty variant of ShowCropInfo: the table is asked for the lower-cased name
ShowCropInfoLower(crop, inputs, t) ==
    LET key  == StrLower(crop)
        base == IF key \in DOMAIN BASE_INFO THEN BASE_INFO[key] ELSE <<>>
    IN  /\ info_text' = [shown |-> TRUE,
                         crop  |-> crop,
                         body  |-> base,
                         tips  |-> <<EXTRA_TIPS[t[1]], EXTRA_TIPS[t[2]]>>]
        /\ UNCHANGED <<BASE_INFO, EXTRA_TIPS>>

\* Faulty variant of ShowCropInfo: random.shuffle(EXTRA_TIPS) and its first
\* two, instead of random.sample
ShowCropInfoShuffle(crop, inputs, t) ==
    LET base == IF crop \in DOMAIN BASE_INFO THEN BASE_INFO[crop] ELSE <<>>
        rest == SelectSeq(EXTRA_TIPS,
                    LAMBDA x : x # EXTRA_TIPS[t[1]] /\ x # EXTRA_TIPS[t[2]])
    IN  /\ info_text' = [shown |-> TRUE,
                         crop  |-> crop,
                         body  |-> base,
                         tips  |-> <<EXTRA_TIPS[t[1]], EXTRA_TIPS[t[2]]>>]
        /\ EXTRA_TIPS' = <<EXTRA_TIPS[t[1]], EXTRA_TIPS[t[2]]>> \o rest
        /\ UNCHANGED BASE_INFO

\* Faulty variant of ShowCropInfo: the guide of a prediction gets a line
\* about the measurements
ShowCropInfoInputs(crop, inputs, t) ==
    LET base == IF crop \in DOMAIN BASE_INFO THEN BASE_INFO[crop] ELSE <<>>
        own  == IF DOMAIN inputs = {} THEN <<>>
                ELSE <<<<"Your soil", "measured">>>>
    IN  /\ info_text' = [shown |-> TRUE,
                         crop  |-> crop,
                         body  |-> base \o own,
                         tips  |-> <<EXTRA_TIPS[t[1]], EXTRA_TIPS[t[2]]>>]
        /\ UNCHANGED <<BASE_INFO, EXTRA_TIPS>>

\* _show_crop_info(crop, inputs) with t the sample drawn
ShowCropInfo(crop, inputs, t) ==
    LET base == IF crop \in DOMAIN BASE_INFO THEN BASE_INFO[crop] ELSE <<>>
    IN  /\ info_text' = [shown |-> TRUE,
                         crop  |-> crop,
                         body  |-> base,
                         tips  |-> <<EXTRA_TIPS[t[1]], EXTRA_TIPS[t[2]]>>]
        /\ UNCHANGED <<BASE_INFO, EXTRA_TIPS>>

\* _show_chart(probs): the frame's children are destroyed and one chart of
\* probs over le.classes_ is packed
ShowChart(probs) ==
    /\ chart' = <<[crops |-> le, probs |-> probs]>>
    /\ UNCHANGED le

\* Faulty variant of Rejected: the output of the last result is wiped
RejectedClears(dialog, trace) ==
    /\ dialogs' = <<dialog>>
    /\ steps' = trace
    /\ result_label' = EmptyLabel
    /\ info_text' = EmptyText
    /\ UNCHANGED <<entries, search_var, chart, model, le, BASE_INFO, EXTRA_TIPS>>

\* a handler returns after showerror: nothing but the dialog happened
Rejected(dialog, trace) ==
    /\ dialogs' = <<dialog>>
    /\ steps' = trace
    /\ UNCHANGED <<entries, search_var, result_label, info_text, chart,
                   model, le, BASE_INFO, EXTRA_TIPS>>

\* the statements from the classifier call to the end of predict_crop,
\* reached with the dialogs in shown already answered
Recommend(inputs, shown, trace) ==
    LET arr        == [i \in 1..Len(EntryKeys) |-> inputs[EntryKeys[i]]]
        pred_label == Predict(model, arr)
        pred_crop  == InverseTransform(le, pred_label)
        probs      == PredictProba(model, arr)
        confidence == Max(probs)
    IN  /\ result_label' = RecommendedLabel(pred_crop, confidence)
        /\ \E t \in SamplePicks : ShowCropInfo(pred_crop, inputs, t)
        /\ ShowChart(probs)
        /\ dialogs' = shown
        /\ steps' = trace \o <<Step("predict", ""), Step("inverse_transform", ""),
                               Step("predict_proba", ""), Step("label", ""),
                               Step("info", ""), Step("chart", "")>>
        /\ UNCHANGED <<entries, search_var, model>>

FloatSteps(n) == [i \in 1..n |-> Step("float", EntryKeys[i])]

CheckSteps(n) == [i \in 1..n |-> Step("check", ranges[i].key)]

\* Faulty variant of PredictCrop: no return after the range dialog
PredictCropNoReturn ==
    LET e == FirstValueError
    IN  IF e # 0
        THEN Rejected(NumericDialog, FloatSteps(e) \o <<Step("showerror", "")>>)
        ELSE
            LET inputs == [k \in DOMAIN entries |-> Float(entries[k])]
                r      == FirstOutOfRange(inputs)
            IN  IF r # 0
                THEN Recommend(inputs,
                        <<RangeDialog(ranges[r].key, ranges[r].low, ranges[r].high)>>,
                        FloatSteps(Len(EntryKeys)) \o CheckSteps(r)
                            \o <<Step("showerror", "")>>)
                ELSE Recommend(inputs, <<>>,
                        FloatSteps(Len(EntryKeys)) \o CheckSteps(Len(ranges)))

PredictCrop ==
    LET e == FirstValueError
    IN  IF e # 0
        THEN Rejected(NumericDialog, FloatSteps(e) \o <<Step("showerror", "")>>)
        ELSE
            LET inputs == [k \in DOMAIN entries |-> Float(entries[k])]
                r      == FirstOutOfRange(inputs)
            IN  IF r # 0
                THEN Rejected(
                        RangeDialog(ranges[r].key, ranges[r].low, ranges[r].high),
                        FloatSteps(Len(EntryKeys)) \o CheckSteps(r)
                            \o <<Step("showerror", "")>>)
                ELSE Recommend(inputs, <<>>,
                        FloatSteps(Len(EntryKeys)) \o CheckSteps(Len(ranges)))

-----------------------------------------------------------------------------
(* search_crop.                                                            *)

\* self.search_var.get().capitalize().strip()
Normalise(query) == Strip(Capitalize(query))

SearchCrop ==
    LET crop  == Normalise(search_var)
        trace == <<Step("capitalize", ""), Step("strip", ""), Step("lookup", "")>>
    IN  IF crop \notin DOMAIN BASE_INFO
        THEN Rejected(NotFoundDialog(crop), trace \o <<Step("showerror", "")>>)
        ELSE /\ result_label' = InformationLabel(crop)
             /\ \E t \in SamplePicks : ShowCropInfo(crop, <<>>, t)
             /\ dialogs' = <<>>
             /\ steps' = trace \o <<Step("label", ""), Step("info", "")>>
             /\ UNCHANGED <<entries, search_var, chart, model, le>>

-----------------------------------------------------------------------------
(* What the user types.                                                    *)

RECURSIVE NatText(_)
NatText(n) ==
    IF n < 10 THEN <<Digits[n + 1]>>
    ELSE NatText(n \div 10) \o <<Digits[(n % 10) + 1]>>

\* the decimal text of n tenths: 1505 is "150.5", -1 is "-0.1", 40 is "4"
TenthsText(n) ==
    LET a == IF n < 0 THEN -n ELSE n
    IN  (IF n < 0 THEN <<"-">> ELSE <<>>)
        \o NatText(a \div 10)
        \o (IF a % 10 = 0 THEN <<>> ELSE <<".", Digits[(a % 10) + 1]>>)

Spaces(n) == [i \in 1..n |-> " "]

KeySet == {EntryKeys[i] : i \in 1..Len(EntryKeys)}

Note(k) == (CHOOSE i \in 1..Len(fields) : fields[i].key = k)

\* texts of numbers on the two ends of the range hinted for field k
OnBound(k) ==
    {TenthsText(10 * fields[Note(k)].note[1]), TenthsText(10 * fields[Note(k)].note[2])}

\* texts float() rejects
NonNumeric == {<<>>, <<"a", "b", "c">>, <<"1", ".", "2", ".", "3">>}

\* texts that are not an accepted value of field k: numbers up to MaxDelta
\* tenths outside the hinted range, nan, and texts that are no number
OffBound(k) ==
    {TenthsText(10 * fields[Note(k)].note[1] - d) : d \in 1..MaxDelta}
    \cup {TenthsText(10 * fields[Note(k)].note[2] + d) : d \in 1..MaxDelta}
    \cup {<<"n", "a", "n">>}
    \cup NonNumeric

AllLow == [k \in KeySet |-> TenthsText(10 * fields[Note(k)].note[1])]

AllHigh == [k \in KeySet |-> TenthsText(10 * fields[Note(k)].note[2])]

\* every field on its low bound, written the long way: " +4.0 "
Padded ==
    [k \in KeySet |->
        <<" ", "+">> \o TenthsText(10 * fields[Note(k)].note[1]) \o <<".", "0", " ">>]

\* a form as created: every entry empty
EmptyForm == [k \in KeySet |-> <<>>]

\* every field on one of its two bounds
OnBounds ==
    {[k \in KeySet |-> IF k \in H THEN AllHigh[k] ELSE AllLow[k]] : H \in SUBSET KeySet}

\* form b with field k1 set to an unaccepted text and then field k2 too
\* (k1 = k2: one field off)
OffBounds(b) ==
    UNION {{[b EXCEPT ![kk[1]] = v1, ![kk[2]] = v2] :
                v1 \in OffBound(kk[1]), v2 \in OffBound(kk[2])} :
           kk \in KeySet \X KeySet}

\* the forms the validation is tried on
TestRecords ==
    OnBounds \cup {Padded} \cup OffBounds(AllLow) \cup OffBounds(AllHigh)

\* the crop names of the table
Keys == {CropChoices[i] : i \in 1..Len(CropChoices)}

\* a name as it is, in lower case and in upper case
Casings(c) == {c, StrLower(c), StrUpper(c)}

\* names of no crop of the table
Unknown == {<<>>, <<" ">>, <<"T", "e", "a">>, <<"R", "i", "c">>,
            <<"R", "i", " ", "c", "e">>, <<"R", "i", "c", "e", "s">>}

\* the queries the search is tried on: every name in each casing with up
\* to MaxPad spaces before and after, and some names of no crop
TestQueries ==
    UNION {{Spaces(a) \o w \o Spaces(b) : a \in 0..MaxPad, b \in 0..MaxPad} :
           w \in UNION {Casings(c) : c \in Keys}}
    \cup Unknown

-----------------------------------------------------------------------------
(* The specifications.                                                     *)

\* the module level statements and __init__
Startup ==
    /\ result_label = EmptyLabel
    /\ info_text = EmptyText
    /\ chart = <<>>
    /\ dialogs = <<>>
    /\ steps = <<>>
    /\ model \in {Fit(f) : f \in 1..NumForests}
    /\ le = LabelEncoderFit
    /\ BASE_INFO = BaseInfoTable
    /\ EXTRA_TIPS = ExtraTipsList

Init ==
    /\ Startup
    /\ entries = EmptyForm
    /\ search_var = <<>>

\* the user fills the form
FillForm(rec) ==
    /\ entries' = rec
    /\ dialogs' = <<>>
    /\ steps' = <<>>
    /\ UNCHANGED <<search_var, result_label, info_text, chart,
                   model, le, BASE_INFO, EXTRA_TIPS>>

\* the user types into the search box
TypeSearch(query) ==
    /\ search_var' = query
    /\ dialogs' = <<>>
    /\ steps' = <<>>
    /\ UNCHANGED <<entries, result_label, info_text, chart,
                   model, le, BASE_INFO, EXTRA_TIPS>>

\* the forms filled in between clicks: accepted ones, one with a value out
\* of range, one with a text that is no number
FormRecords ==
    {AllLow, AllHigh, Padded,
     [AllLow EXCEPT !["Rainfall"] = AllHigh["Rainfall"]],
     [AllHigh EXCEPT !["Humidity"] = TenthsText(10 * fields[Note("Humidity")].note[2] + 1)],
     [AllLow EXCEPT !["pH"] = <<"a", "b", "c">>]}

\* the queries typed between clicks
SearchTexts ==
    {Rice, StrLower(Wheat), <<" ">> \o StrLower(Maize), <<"T", "e", "a">>}

Next ==
    \/ \E rec \in FormRecords : FillForm(rec)
    \/ \E query \in SearchTexts : TypeSearch(query)
    \/ PredictCrop
    \/ SearchCrop

Spec == Init /\ [][Next]_vars

\* the validation of predict_crop over the test forms
InitValidate ==
    /\ Startup
    /\ entries \in TestRecords
    /\ search_var = <<>>

NextValidate == PredictCrop

SpecValidate == InitValidate /\ [][NextValidate]_vars

\* the lookup of search_crop over the test queries
InitSearch ==
    /\ Startup
    /\ entries = EmptyForm
    /\ search_var \in TestQueries

NextSearch == SearchCrop

SpecSearch == InitSearch /\ [][NextSearch]_vars

\* the forms the lookup is tried on: all fields on one bound, or all but one
LookupForms ==
    {AllLow, AllHigh}
    \cup {[AllLow EXCEPT ![k] = AllHigh[k]] : k \in KeySet}
    \cup {[AllHigh EXCEPT ![k] = AllLow[k]] : k \in KeySet}

\* predictions and searches of the crops of the table
InitLookup ==
    /\ Startup
    /\ entries \in LookupForms
    /\ search_var \in Keys

NextLookup ==
    \/ PredictCrop
    \/ SearchCrop

SpecLookup == InitLookup /\ [][NextLookup]_vars

-----------------------------------------------------------------------------
(* What the properties are stated with.                                    *)

HasStep(op) == \E i \in 1..Len(steps) : steps[i].op = op

StepsOf(op) == {i \in 1..Len(steps) : steps[i].op = op}

\* every step a comes before every step b
Before(a, b) == \A i \in StepsOf(a), j \in StepsOf(b) : i < j

\* the last click was Predict / Search
ClickedPredict == steps # <<>> /\ steps[1].op = "float"

ClickedSearch == steps # <<>> /\ steps[1].op = "capitalize"

\* the fields and ranges as the specification states them, in form order
StatedRanges == <<
    <<"Nitrogen", 0, 150>>, <<"Phosphorus", 0, 150>>, <<"Potassium", 0, 150>>,
    <<"Temperature", 10, 40>>, <<"Humidity", 20, 90>>, <<"pH", 4, 9>>,
    <<"Rainfall", 50, 300>> >>

StatedCrops == {Rice, Wheat, Maize, Cotton, Sugarcane, Barley, Pulses, Coffee}

StatedHeadings ==
    <<"Cultivation", "Water", "Pests", "Harvest", "Fertilizer", "Soil", "Climate">>

RangeTemplate == "{k} must be between {low} and {high}."

NumericTemplate == "Please enter numeric values for all fields."

\* the number typed into field k
Value(k) == Float(entries[k])

\* low <= v <= high, both ends included
Inside(v, low, high) ==
    /\ v.kind = "num"
    /\ v.mant >= low * Pow10(v.exp)
    /\ v.mant <= high * Pow10(v.exp)

\* the fields whose text is no number
NonNumericFields == {k \in KeySet : Value(k).kind = "ValueError"}

\* the positions, in form order, of the fields outside their stated range
Offending ==
    {i \in 1..Len(StatedRanges) :
        ~Inside(Value(StatedRanges[i][1]), StatedRanges[i][2], StatedRanges[i][3])}

\* the crop with the longest bar of the chart on display
ChartCrop == chart[1].crops[ArgMax(chart[1].probs)]

\* the info area shows a guide of crop c with the seven headings, each with
\* a text
FullGuide(c) ==
    /\ info_text.shown
    /\ info_text.crop = c
    /\ Len(info_text.body) = Len(StatedHeadings)
    /\ \A i \in 1..Len(StatedHeadings) :
          /\ info_text.body[i][1] = StatedHeadings[i]
          /\ info_text.body[i][2] # ""

-----------------------------------------------------------------------------
(* C1: after a Predict click on a form whose seven entries are all numbers *)
(* and of which at least one is outside its range, exactly one dialog was  *)
(* shown, it names the first offending field in form order with that       *)
(* field's low and high bound, and the classifier was not called.          *)
C1_RangeDialogNamesFirstOffender ==
    (ClickedPredict /\ NonNumericFields = {} /\ Offending # {}) =>
        LET f == StatedRanges[Least(Offending)]
        IN  /\ Len(dialogs) = 1
            /\ dialogs[1].title = "Invalid Input"
            /\ dialogs[1].template = RangeTemplate
            /\ dialogs[1].args = f
            /\ ~HasStep("predict")
            /\ ~HasStep("predict_proba")

\* two fields are out of range, the first of them is not the first field,
\* and the dialog names it
C1_Witness ==
    /\ ClickedPredict
    /\ NonNumericFields = {}
    /\ Cardinality(Offending) = 2
    /\ Least(Offending) > 1
    /\ Len(dialogs) = 1
    /\ dialogs[1].template = RangeTemplate
    /\ dialogs[1].args[1] = StatedRanges[Least(Offending)][1]

(* C2 as stated: after a Predict click on a form with an entry that is no  *)
(* number, a dialog names such a field and its valid range.                *)
C2_NonNumericDialogNamesField ==
    (ClickedPredict /\ NonNumericFields # {}) =>
        \E i \in 1..Len(dialogs) :
            /\ dialogs[i].template = RangeTemplate
            /\ \E j \in 1..Len(StatedRanges) :
                  /\ StatedRanges[j][1] \in NonNumericFields
                  /\ dialogs[i].args = StatedRanges[j]

(* C2 amended: after a Predict click on a form with an entry that is no    *)
(* number (the empty entry included), exactly one dialog was shown, titled *)
(* "Invalid Input" with the fixed text "Please enter numeric values for    *)
(* all fields."; it names no field and no range, and the classifier was    *)
(* not called.                                                             *)
C2_NonNumericDialogIsGeneric ==
    (ClickedPredict /\ NonNumericFields # {}) =>
        /\ Len(dialogs) = 1
        /\ dialogs[1].title = "Invalid Input"
        /\ dialogs[1].template = NumericTemplate
        /\ dialogs[1].args = <<>>
        /\ ~HasStep("predict")
        /\ ~HasStep("predict_proba")

\* pH is empty, Nitrogen is a number out of its range, and the dialog is
\* the fixed one
C2_Witness ==
    /\ ClickedPredict
    /\ entries["pH"] = <<>>
    /\ Value("Nitrogen").kind = "num"
    /\ ~Inside(Value("Nitrogen"), 0, 150)
    /\ Len(dialogs) = 1
    /\ dialogs[1].template = NumericTemplate

(* C3: the ranges validated are those of the hints next to the fields, and *)
(* a Predict click reaches the classifier exactly when every one of the    *)
(* seven entries is a number v with low <= v <= high, both bounds          *)
(* included.                                                               *)
C3_ClassifiesIffAllInRange ==
    /\ Len(ranges) = Len(fields)
    /\ \A i \in 1..Len(fields) :
          /\ ranges[i].key = fields[i].key
          /\ <<ranges[i].low, ranges[i].high>> = fields[i].note
    /\ ClickedPredict =>
          (HasStep("predict") <=>
              \A i \in 1..Len(fields) :
                  Inside(Value(fields[i].key), fields[i].note[1], fields[i].note[2]))

\* every field is exactly on a bound, low ones and high ones, and the
\* classifier was reached
C3_Witness ==
    /\ ClickedPredict
    /\ HasStep("predict")
    /\ entries \in OnBounds
    /\ entries["Nitrogen"] = <<"0">>
    /\ entries["Phosphorus"] = <<"1", "5", "0">>
    /\ entries["pH"] = <<"9">>
    /\ entries["Rainfall"] = <<"5", "0">>

(* C4: the labels the classifier can output and the keys of BASE_INFO are  *)
(* the same eight crops; a search for one of them, and a prediction of one *)
(* of them, shows no dialog and renders that crop's guide with all seven   *)
(* headings, none with an empty text.                                      *)
C4_EveryCropHasAGuide ==
    /\ {le[i] : i \in 1..Len(le)} = StatedCrops
    /\ DOMAIN BASE_INFO = StatedCrops
    /\ (ClickedSearch /\ search_var \in StatedCrops) =>
          /\ dialogs = <<>>
          /\ result_label.kind = "Information for"
          /\ result_label.crop = search_var
          /\ FullGuide(search_var)
    /\ (ClickedPredict /\ HasStep("predict")) =>
          /\ dialogs = <<>>
          /\ result_label.kind = "Recommended Crop"
          /\ result_label.crop \in StatedCrops
          /\ FullGuide(result_label.crop)

\* Coffee was predicted (its chart is still there) and then searched, and
\* its full guide is on display
C4_Witness ==
    /\ ClickedSearch
    /\ search_var = Coffee
    /\ chart # <<>>
    /\ ChartCrop = Coffee
    /\ FullGuide(Coffee)

(* C5: no event changes the knowledge table, the tips list, the fitted     *)
(* classifier or the label encoder.                                        *)
C5_StartupStateNeverChanges ==
    [][/\ BASE_INFO' = BASE_INFO
       /\ EXTRA_TIPS' = EXTRA_TIPS
       /\ model' = model
       /\ le' = le]_vars

\* a prediction and a search have been rendered, the last click was
\* rejected, and the tables are those of the source
C5_Witness ==
    /\ dialogs # <<>>
    /\ chart # <<>>
    /\ result_label.kind = "Information for"
    /\ BASE_INFO = BaseInfoTable
    /\ EXTRA_TIPS = ExtraTipsList
    /\ le = LabelEncoderFit

(* C6 as stated: a display of the crop that is already on display renders  *)
(* the identical text.                                                     *)
C6_SameCropSameText ==
    [][(info_text.shown /\ info_text'.shown /\ info_text'.crop = info_text.crop)
            => info_text' = info_text]_vars

(* C6 amended: the guide displayed for a crop is static except for its     *)
(* Extra Tips: the title and the heading lines written by _show_crop_info  *)
(* are those of the crop's BASE_INFO entry whoever displays it and         *)
(* whatever the measurements, so two displays of the same crop agree on    *)
(* them; the two tips are two different entries of EXTRA_TIPS drawn at     *)
(* each display.                                                           *)
C6_GuideDependsOnlyOnCrop ==
    info_text.shown =>
        /\ info_text.crop \in DOMAIN BaseInfoTable
        /\ info_text.body = BaseInfoTable[info_text.crop]
        /\ Len(info_text.tips) = 2
        /\ info_text.tips[1] # info_text.tips[2]
        /\ \A i \in 1..2 : \E j \in 1..Len(ExtraTipsList) :
              info_text.tips[i] = ExtraTipsList[j]

\* the crop on display by a search is the crop that was predicted before
C6_Witness ==
    /\ ClickedSearch
    /\ info_text.shown
    /\ result_label.kind = "Information for"
    /\ chart # <<>>
    /\ ChartCrop = info_text.crop
    /\ entries # EmptyForm

(* C7: in a Predict click the parsing of all seven entries comes before    *)
(* every range check, the range checks before the classifier call, the     *)
(* classifier call before the updates of label, guide and chart; a click   *)
(* whose validation failed ends with its one dialog, calls no classifier   *)
(* and renders nothing; a click whose validation succeeded updates label,  *)
(* guide and chart.                                                        *)
C7_ValidatePredictRender ==
    ClickedPredict =>
        /\ Before("float", "check")
        /\ Before("check", "predict")
        /\ Before("check", "predict_proba")
        /\ \A r \in {"label", "info", "chart"} :
              Before("predict", r) /\ Before("predict_proba", r)
        /\ HasStep("check") =>
              {steps[i].arg : i \in StepsOf("float")} = KeySet
        /\ HasStep("predict") =>
              {steps[i].arg : i \in StepsOf("check")} = KeySet
        /\ IF NonNumericFields # {} \/ Offending # {}
           THEN /\ Cardinality(StepsOf("showerror")) = 1
                /\ steps[Len(steps)].op = "showerror"
                /\ Len(dialogs) = 1
                /\ \A r \in {"predict", "predict_proba", "label", "info", "chart"} :
                      ~HasStep(r)
                /\ result_label = EmptyLabel
                /\ info_text = EmptyText
                /\ chart = <<>>
           ELSE /\ ~HasStep("showerror")
                /\ dialogs = <<>>
                /\ \A r \in {"predict", "predict_proba", "label", "info", "chart"} :
                      Cardinality(StepsOf(r)) = 1
                /\ result_label.kind = "Recommended Crop"
                /\ info_text.shown
                /\ Len(chart) = 1

\* a click that went through all of it: seven parses, seven checks, the
\* classifier, the three updates
C7_Witness ==
    /\ ClickedPredict
    /\ Len(steps) = 2 * Len(StatedRanges) + 6
    /\ steps[Len(StatedRanges)].op = "float"
    /\ steps[2 * Len(StatedRanges)].op = "check"
    /\ steps[2 * Len(StatedRanges) + 1].op = "predict"
    /\ steps[Len(steps)].op = "chart"
    /\ Len(chart) = 1

(* C8: a click that ends in an error dialog (Predict on a form that fails  *)
(* validation, Search for a name not in the table) leaves the result       *)
(* label, the guide text, the chart and the form entries as they were.     *)
C8_RejectedClickChangesNothing ==
    [][dialogs' # <<>> =>
            /\ result_label' = result_label
            /\ info_text' = info_text
            /\ chart' = chart
            /\ entries' = entries]_vars

\* a Predict click was rejected while an earlier recommendation, its guide
\* and its chart are on display
C8_Witness ==
    /\ ClickedPredict
    /\ dialogs # <<>>
    /\ result_label.kind = "Recommended Crop"
    /\ info_text.shown
    /\ chart # <<>>

(* C9 as stated: the crop of the result label is the crop of the guide,    *)
(* and a chart on display is the chart of a prediction of that crop.       *)
C9_DisplayIsCoherent ==
    /\ result_label.crop = info_text.crop
    /\ chart # <<>> => ChartCrop = result_label.crop

(* C10 as stated: a Search for a query that is a crop name in any casing,  *)
(* with any spaces before and after, displays that crop's guide; any other *)
(* query gets the "Not Found" dialog.                                      *)
C10_SearchIgnoresCaseAndPadding ==
    ClickedSearch =>
        LET c == Capitalize(Strip(search_var))
        IN  IF c \in StatedCrops
            THEN /\ dialogs = <<>>
                 /\ info_text.shown
                 /\ info_text.crop = c
                 /\ info_text.body = BaseInfoTable[c]
            ELSE /\ Len(dialogs) = 1
                 /\ dialogs[1].title = "Not Found"

====
